---- MODULE Spec2Model ----
(***************************************************************************)
(* State-machine model of src/app.py: an AWS Lambda function that, on an   *)
(* S3 object-created notification, reads the object's metadata with        *)
(* head_object and stores it in a DynamoDB table, and, on an API Gateway   *)
(* GET request, returns the stored record.                                 *)
(*                                                                         *)
(* Several invocations of lambda_handler may run at once (one per slot of  *)
(* Procs); each is a linear flow with one step per call to S3 or DynamoDB. *)
(*                                                                         *)
(* Representation of Python values:                                        *)
(*   str that the code scans (object keys)  a sequence of one-character    *)
(*                                          strings, <<"x", "+", "y">>     *)
(*   other str                              a TLA+ string                  *)
(*   dict                                   a record; a key is present     *)
(*                                          iff it is in DOMAIN            *)
(*   list                                   [list |-> <<...>>]             *)
(*   None / JSON null                       Null                           *)
(*   int, Decimal, DynamoDB Number          [type |-> ..., val |-> n]      *)
(*   a raised exception                     [raised |-> "<its class>"]     *)
(***************************************************************************)
EXTENDS Integers, Sequences, FiniteSets, TLC

VARIABLES
    table,      \* the DynamoDB table: the set of stored items
    pc,         \* pc[p]: where invocation slot p stands
    event,      \* event[p]: the envelope lambda_handler was called with
    handler,    \* handler[p]: the function lambda_handler dispatched to
    response,   \* response[p]: head_object's response (handle_s3_event)
    result,     \* result[p]: what the invocation returned, or raised
    calls,      \* calls[p]: the S3 / DynamoDB calls the invocation has made
    lastPut     \* history: key -> the head_object response whose item the
                \* most recent successful put_item for that key stored

vars == <<table, pc, event, handler, response, result, calls, lastPut>>

----------------------------------------------------------------------------
(* Bounds *)

\* Concurrent invocations of the function.
NumProcs == 2
\* Longest 'Records' list of an envelope.
MaxRecords == 2
\* Longest raw object key of the exhaustive key family.
MaxKeyLen == 3

Procs == 1..NumProcs

----------------------------------------------------------------------------
(* Python values *)

Null == [null |-> TRUE]
PyInt(n) == [type |-> "int", val |-> n]
Raised(cls) == [raised |-> cls]
IsRaised(r) == "raised" \in DOMAIN r
IsList(v) == "list" \in DOMAIN v
IsDict(v) == ~IsList(v) /\ "null" \notin DOMAIN v

Digit(n) ==
    CASE n = 0 -> "0" [] n = 1 -> "1" [] n = 2 -> "2" [] n = 3 -> "3"
      [] n = 4 -> "4" [] n = 5 -> "5" [] n = 6 -> "6" [] n = 7 -> "7"
      [] n = 8 -> "8" [] n = 9 -> "9"
Pad2(n) == Digit((n \div 10) % 10) \o Digit(n % 10)
Pad4(n) == Pad2(n \div 100) \o Pad2(n % 100)

\* datetime.isoformat() of a timezone-aware datetime with microsecond = 0
\* (what botocore parses out of S3's Last-Modified header, in UTC).
isoformat(dt) ==
    Pad4(dt.year) \o "-" \o Pad2(dt.month) \o "-" \o Pad2(dt.day) \o "T"
    \o Pad2(dt.hour) \o ":" \o Pad2(dt.minute) \o ":" \o Pad2(dt.second)
    \o "+00:00"

\* json.dumps(v): the JSON text of v, kept as the value it encodes.
json_dumps(v) == [json |-> v]
\* json.dumps raises TypeError on a Decimal; 'size' is the item's one number.
JsonSerializable(item) == item.size.type = "int"

----------------------------------------------------------------------------
(* urllib.parse.unquote_plus *)

HexDigits == {"0", "1", "2", "3", "4", "5", "6", "7", "8", "9",
              "a", "b", "c", "d", "e", "f", "A", "B", "C", "D", "E", "F"}

HexVal(c) ==
    CASE c = "0" -> 0 [] c = "1" -> 1 [] c = "2" -> 2 [] c = "3" -> 3
      [] c = "4" -> 4 [] c = "5" -> 5 [] c = "6" -> 6 [] c = "7" -> 7
      [] c = "8" -> 8 [] c = "9" -> 9
      [] c \in {"a", "A"} -> 10 [] c \in {"b", "B"} -> 11
      [] c \in {"c", "C"} -> 12 [] c \in {"d", "D"} -> 13
      [] c \in {"e", "E"} -> 14 [] c \in {"f", "F"} -> 15

\* bytes([n]).decode('utf-8', 'replace') for the bytes the modelled keys can
\* escape: an ASCII byte is its character, a lone continuation byte
\* (0x80..0xBF) is U+FFFD.
ByteToChar(n) ==
    CASE n = 0 -> "<00>" [] n = 2 -> "<02>" [] n = 11 -> "<0B>"
      [] n = 32 -> " " [] n = 34 -> "\"" [] n = 43 -> "+"
      [] n >= 128 /\ n <= 191 -> "<FFFD>"

\* string.replace('+', ' ')
ReplacePlus(s) == [i \in 1..Len(s) |-> IF s[i] = "+" THEN " " ELSE s[i]]

\* string.split('%')
RECURSIVE SplitPercent(_)
SplitPercent(s) ==
    IF \A i \in 1..Len(s) : s[i] # "%"
    THEN <<s>>
    ELSE LET i == CHOOSE j \in 1..Len(s) :
                      s[j] = "%" /\ \A k \in 1..(j - 1) : s[k] # "%"
         IN  <<SubSeq(s, 1, i - 1)>> \o SplitPercent(SubSeq(s, i + 1, Len(s)))

\* One item after a '%': its first two characters, when both are hex digits,
\* become the byte they name; otherwise the '%' is put back.
UnquoteItem(item) ==
    IF Len(item) >= 2 /\ item[1] \in HexDigits /\ item[2] \in HexDigits
    THEN <<ByteToChar(16 * HexVal(item[1]) + HexVal(item[2]))>>
         \o SubSeq(item, 3, Len(item))
    ELSE <<"%">> \o item

RECURSIVE JoinItems(_)
JoinItems(items) ==
    IF items = <<>> THEN <<>>
    ELSE UnquoteItem(Head(items)) \o JoinItems(Tail(items))

\* urllib.parse.unquote
unquote(s) ==
    LET bits == SplitPercent(s)
    IN  Head(bits) \o JoinItems(Tail(bits))

\* Mutant of unquote_plus: the escapes are resolved first, the '+' replaced
\* after, so that an escaped '+' becomes a space too.
unquote_then_plus(s) == ReplacePlus(unquote(s))

\* The '+' are replaced first, the escapes resolved after.
unquote_plus(s) == unquote(ReplacePlus(s))

----------------------------------------------------------------------------
(* Envelopes *)

S3Record(b, k) == [s3 |-> [bucket |-> [name |-> b], object |-> [key |-> k]]]
\* An entry of 'Records' without the 's3' key.
MalformedRecord == [eventSource |-> "aws:s3"]
S3Event(recs) == [Records |-> [list |-> recs]]
ApiEvent(pp) == [httpMethod |-> "GET", pathParameters |-> pp]
UnknownEvent == [source |-> "aws.events"]

\* What S3 reports of an object.
T1 == [year |-> 2024, month |-> 1, day |-> 1,
       hour |-> 0, minute |-> 0, second |-> 0]
T2 == [year |-> 2023, month |-> 12, day |-> 31,
       hour |-> 23, minute |-> 59, second |-> 59]
Metadata ==
    { [ContentLength |-> PyInt(1024), ContentType |-> "image/png",
       LastModified |-> T1],
      [ContentLength |-> PyInt(0), ContentType |-> "image/jpeg",
       LastModified |-> T2] }

Buckets == {"imgs"}
\* Raw (encoded) object keys: two encodings of "x y", and "z".
RawKeys == {<<"x", "+", "y">>, <<"x", "%", "2", "0", "y">>, <<"z">>}
\* Names a lookup asks for: two decoded keys, and a raw one.
ImageNames == {<<"x", " ", "y">>, <<"z">>, <<"x", "+", "y">>}

\* The envelopes of the concurrent specification.
Events ==
    {S3Event(<<S3Record(b, k)>>) : b \in Buckets, k \in RawKeys}
    \cup {ApiEvent([imageName |-> n]) : n \in ImageNames}
    \cup {[httpMethod |-> "GET"], UnknownEvent}

----------------------------------------------------------------------------
(* lambda_handler: the router *)

\* Mutant of Route: an envelope that is no storage notification is taken for
\* a request.
RouteQueryByDefault(e) ==
    IF "Records" \in DOMAIN e THEN "handle_s3_event"
    ELSE "handle_api_gateway_event"

\* Mutant of Route: the HTTP method is looked for first.
RouteHttpFirst(e) ==
    IF "httpMethod" \in DOMAIN e THEN "handle_api_gateway_event"
    ELSE IF "Records" \in DOMAIN e THEN "handle_s3_event"
    ELSE "lambda_handler"

Route(e) ==
    IF "Records" \in DOMAIN e THEN "handle_s3_event"
    ELSE IF "httpMethod" \in DOMAIN e THEN "handle_api_gateway_event"
    ELSE "lambda_handler"

UnknownSourceResponse ==
    [statusCode |-> 400, body |-> json_dumps("Unknown event source")]

----------------------------------------------------------------------------
(* handle_s3_event *)

\* Mutant of FirstRecord: the last entry of the batch is read.
LastRecord(e) == e.Records.list[Len(e.Records.list)]

\* The entry of the batch the handler reads: event['Records'][0].
FirstRecord(e) == e.Records.list[1]

\* The exception lines 33-35 raise, "" when they raise none.
ReadRecordError(e) ==
    IF ~IsList(e.Records) THEN "TypeError"
    ELSE IF e.Records.list = <<>> THEN "IndexError"
    ELSE IF "s3" \notin DOMAIN FirstRecord(e) THEN "KeyError"
    ELSE ""

bucket_name(e) == FirstRecord(e).s3.bucket.name
object_key(e) == unquote_plus(FirstRecord(e).s3.object.key)

BuildItem(key, resp) ==
    [imageName |-> key,
     size |-> resp.ContentLength,
     contentType |-> resp.ContentType,
     lastModified |-> isoformat(resp.LastModified)]

----------------------------------------------------------------------------
(* The DynamoDB table *)

\* boto3 stores a Python int as a DynamoDB Number ...
Serialize(item) ==
    [item EXCEPT !.size = [type |-> "N", val |-> item.size.val]]
\* ... and hands a Number back as a decimal.Decimal.
Deserialize(stored) ==
    [stored EXCEPT !.size = [type |-> "Decimal", val |-> stored.size.val]]

\* Mutant of PutItem: the put adds the item and replaces none.
PutItemAppend(tbl, item) == tbl \cup {Serialize(item)}

\* table.put_item(Item=item): an unconditional put replaces the item that
\* has the same primary key.
PutItem(tbl, item) ==
    {i \in tbl : i.imageName # item.imageName} \cup {Serialize(item)}

\* Mutant of GetItem: the name asked for is URL-decoded before the read.
GetItemDecoded(tbl, key) ==
    LET hits == {i \in tbl : i.imageName = unquote_plus(key.imageName)}
    IN  IF hits = {} THEN [ResponseMetadata |-> "ok"]
        ELSE [ResponseMetadata |-> "ok",
              Item |-> Deserialize(CHOOSE i \in hits : TRUE)]

\* table.get_item(Key=key): the response has 'Item' only when one is stored.
GetItem(tbl, key) ==
    LET hits == {i \in tbl : i.imageName = key.imageName}
    IN  IF hits = {} THEN [ResponseMetadata |-> "ok"]
        ELSE [ResponseMetadata |-> "ok",
              Item |-> Deserialize(CHOOSE i \in hits : TRUE)]

----------------------------------------------------------------------------
(* handle_api_gateway_event *)

\* The exception line 64 raises, "" when it raises none.
PathParameterError(e) ==
    IF "pathParameters" \notin DOMAIN e THEN "KeyError"
    ELSE IF ~IsDict(e.pathParameters) THEN "TypeError"
    ELSE IF "imageName" \notin DOMAIN e.pathParameters THEN "KeyError"
    ELSE ""

image_name(e) == e.pathParameters.imageName

\* int(item['size'])
int(d) == [type |-> "int", val |-> d.val]

InternalErrorResponse ==
    [statusCode |-> 500,
     body |-> json_dumps([error |-> "Internal server error"])]
NotFoundResponse ==
    [statusCode |-> 404, body |-> json_dumps([error |-> "Image not found"])]

\* Mutant of QueryResponse: 'size' is left a Decimal, which json.dumps
\* refuses.
QueryResponseNoInt(resp) ==
    IF "Item" \in DOMAIN resp
    THEN IF JsonSerializable(resp.Item)
         THEN [statusCode |-> 200,
               body |-> json_dumps(resp.Item),
               headers |-> ("Content-Type" :> "application/json")]
         ELSE InternalErrorResponse
    ELSE NotFoundResponse

\* Lines 69-80: the answer to a get_item response.
QueryResponse(resp) ==
    IF "Item" \in DOMAIN resp
    THEN LET item == [resp.Item EXCEPT !.size = int(resp.Item.size)]
         IN  IF JsonSerializable(item)
             THEN [statusCode |-> 200,
                   body |-> json_dumps(item),
                   headers |-> ("Content-Type" :> "application/json")]
             ELSE InternalErrorResponse
    ELSE NotFoundResponse

----------------------------------------------------------------------------
(* Steps *)

Log(p, call) == calls' = [calls EXCEPT ![p] = Append(@, call)]

\* Lines 15-27, and the handler's code up to its first call to AWS.
Dispatch(p, e) ==
    /\ pc[p] = "idle"
    /\ event' = [event EXCEPT ![p] = e]
    /\ handler' = [handler EXCEPT ![p] = Route(e)]
    /\ IF Route(e) = "handle_s3_event" THEN
           IF ReadRecordError(e) = ""
           THEN /\ pc' = [pc EXCEPT ![p] = "head_object"]
                /\ UNCHANGED result
           ELSE /\ pc' = [pc EXCEPT ![p] = "done"]
                /\ result' = [result EXCEPT ![p] = Raised(ReadRecordError(e))]
       ELSE IF Route(e) = "handle_api_gateway_event" THEN
           IF PathParameterError(e) = ""
           THEN /\ pc' = [pc EXCEPT ![p] = "get_item"]
                /\ UNCHANGED result
           ELSE /\ pc' = [pc EXCEPT ![p] = "done"]
                /\ result' = [result EXCEPT ![p] = InternalErrorResponse]
       ELSE /\ pc' = [pc EXCEPT ![p] = "done"]
            /\ result' = [result EXCEPT ![p] = UnknownSourceResponse]
    /\ UNCHANGED <<table, response, calls, lastPut>>

lambda_handler(p) == \E e \in Events : Dispatch(p, e)

\* Line 38: s3_client.head_object answers with the object's metadata ...
head_object_ok(p) ==
    /\ pc[p] = "head_object"
    /\ \E m \in Metadata : response' = [response EXCEPT ![p] = m]
    /\ Log(p, [op |-> "head_object", Bucket |-> bucket_name(event[p]),
               Key |-> object_key(event[p]), ok |-> TRUE])
    /\ pc' = [pc EXCEPT ![p] = "put_item"]
    /\ UNCHANGED <<table, event, handler, result, lastPut>>

\* Mutant of head_object_fails: a placeholder record is put for the object
\* whose metadata could not be read.
head_object_fails_writes(p) ==
    /\ pc[p] = "head_object"
    /\ Log(p, [op |-> "head_object", Bucket |-> bucket_name(event[p]),
               Key |-> object_key(event[p]), ok |-> FALSE])
    /\ table' = PutItem(table, [imageName |-> object_key(event[p]),
                                size |-> PyInt(0),
                                contentType |-> "",
                                lastModified |-> ""])
    /\ pc' = [pc EXCEPT ![p] = "done"]
    /\ result' = [result EXCEPT ![p] = Raised("ClientError")]
    /\ UNCHANGED <<event, handler, response, lastPut>>

\* ... or raises (no such object, no access, no connection); lines 54-58
\* raise it again.
head_object_fails(p) ==
    /\ pc[p] = "head_object"
    /\ Log(p, [op |-> "head_object", Bucket |-> bucket_name(event[p]),
               Key |-> object_key(event[p]), ok |-> FALSE])
    /\ pc' = [pc EXCEPT ![p] = "done"]
    /\ result' = [result EXCEPT ![p] = Raised("ClientError")]
    /\ UNCHANGED <<table, event, handler, response, lastPut>>

\* Lines 41-52: the item is built and put, and the handler returns 200.
put_item_ok(p) ==
    LET item == BuildItem(object_key(event[p]), response[p])
    IN  /\ pc[p] = "put_item"
        /\ table' = PutItem(table, item)
        /\ lastPut' = [k \in DOMAIN lastPut \cup {item.imageName} |->
                          IF k = item.imageName THEN response[p]
                          ELSE lastPut[k]]
        /\ Log(p, [op |-> "put_item", Item |-> item, ok |-> TRUE])
        /\ pc' = [pc EXCEPT ![p] = "done"]
        /\ result' = [result EXCEPT ![p] = [statusCode |-> 200]]
        /\ UNCHANGED <<event, handler, response>>

\* Mutant of put_item_fails: the failure is answered, not raised.
put_item_fails_answered(p) ==
    LET item == BuildItem(object_key(event[p]), response[p])
    IN  /\ pc[p] = "put_item"
        /\ Log(p, [op |-> "put_item", Item |-> item, ok |-> FALSE])
        /\ pc' = [pc EXCEPT ![p] = "done"]
        /\ result' = [result EXCEPT ![p] = InternalErrorResponse]
        /\ UNCHANGED <<table, event, handler, response, lastPut>>

\* The put raises; lines 54-58 raise it again.
put_item_fails(p) ==
    LET item == BuildItem(object_key(event[p]), response[p])
    IN  /\ pc[p] = "put_item"
        /\ Log(p, [op |-> "put_item", Item |-> item, ok |-> FALSE])
        /\ pc' = [pc EXCEPT ![p] = "done"]
        /\ result' = [result EXCEPT ![p] = Raised("ClientError")]
        /\ UNCHANGED <<table, event, handler, response, lastPut>>

\* Lines 67-80: the read, and the answer built from it.
get_item_ok(p) ==
    LET key == [imageName |-> image_name(event[p])]
    IN  /\ pc[p] = "get_item"
        /\ Log(p, [op |-> "get_item", Key |-> key, ok |-> TRUE])
        /\ pc' = [pc EXCEPT ![p] = "done"]
        /\ result' = [result EXCEPT ![p] = QueryResponse(GetItem(table, key))]
        /\ UNCHANGED <<table, event, handler, response, lastPut>>

\* Mutant of get_item_fails: the failure of the read escapes the handler.
get_item_fails_raised(p) ==
    LET key == [imageName |-> image_name(event[p])]
    IN  /\ pc[p] = "get_item"
        /\ Log(p, [op |-> "get_item", Key |-> key, ok |-> FALSE])
        /\ pc' = [pc EXCEPT ![p] = "done"]
        /\ result' = [result EXCEPT ![p] = Raised("ClientError")]
        /\ UNCHANGED <<table, event, handler, response, lastPut>>

\* The read raises; lines 82-84 answer 500.
get_item_fails(p) ==
    LET key == [imageName |-> image_name(event[p])]
    IN  /\ pc[p] = "get_item"
        /\ Log(p, [op |-> "get_item", Key |-> key, ok |-> FALSE])
        /\ pc' = [pc EXCEPT ![p] = "done"]
        /\ result' = [result EXCEPT ![p] = InternalErrorResponse]
        /\ UNCHANGED <<table, event, handler, response, lastPut>>

\* The platform takes the outcome; the slot is free for the next invocation.
Finish(p) ==
    /\ pc[p] = "done"
    /\ pc' = [pc EXCEPT ![p] = "idle"]
    /\ event' = [event EXCEPT ![p] = Null]
    /\ handler' = [handler EXCEPT ![p] = "none"]
    /\ response' = [response EXCEPT ![p] = Null]
    /\ result' = [result EXCEPT ![p] = Null]
    /\ calls' = [calls EXCEPT ![p] = <<>>]
    /\ UNCHANGED <<table, lastPut>>

----------------------------------------------------------------------------
(* The concurrent specification *)

Init ==
    /\ table = {}
    /\ pc = [p \in Procs |-> "idle"]
    /\ event = [p \in Procs |-> Null]
    /\ handler = [p \in Procs |-> "none"]
    /\ response = [p \in Procs |-> Null]
    /\ result = [p \in Procs |-> Null]
    /\ calls = [p \in Procs |-> <<>>]
    /\ lastPut = <<>>

Next ==
    \E p \in Procs :
        \/ lambda_handler(p)
        \/ head_object_ok(p)
        \/ head_object_fails(p)
        \/ put_item_ok(p)
        \/ put_item_fails(p)
        \/ get_item_ok(p)
        \/ get_item_fails(p)
        \/ Finish(p)

Spec == Init /\ [][Next]_vars

----------------------------------------------------------------------------
(* The specification of one invocation, over every shape of envelope *)

KeyChars == {"x", "+", "%", "2", "0", "B"}
SeqsUpTo(S, n) == UNION {[1..k -> S] : k \in 0..n}
\* Every raw key of 1..MaxKeyLen characters.
AllKeys == SeqsUpTo(KeyChars, MaxKeyLen) \ {<<>>}

RecordEntries ==
    {MalformedRecord} \cup {S3Record(b, k) : b \in Buckets, k \in RawKeys}
\* 'Records' of an envelope: null, or a list of 0..MaxRecords entries.
RecordsValues ==
    {Null} \cup {[list |-> recs] : recs \in SeqsUpTo(RecordEntries, MaxRecords)}
\* 'pathParameters' of a request: null, without imageName, or with it.
PathParameterValues ==
    {Null, [proxy |-> "images"]} \cup {[imageName |-> n] : n \in ImageNames}

ShapeEvents ==
    {S3Event(<<S3Record(b, k)>>) : b \in Buckets, k \in AllKeys}
    \cup {[Records |-> r] : r \in RecordsValues}
    \cup {[Records |-> r, httpMethod |-> "GET",
           pathParameters |-> [imageName |-> <<"z">>]] : r \in RecordsValues}
    \cup {ApiEvent(pp) : pp \in PathParameterValues}
    \cup {[httpMethod |-> "GET"], UnknownEvent}

\* The tables earlier ingestions of the keys of RawKeys can have left.
DecodedKeys == {unquote_plus(k) : k \in RawKeys}
PriorPuts == UNION {[ks -> Metadata] : ks \in SUBSET DecodedKeys}
TableOf(puts) == {Serialize(BuildItem(k, puts[k])) : k \in DOMAIN puts}

InitShapes ==
    /\ \E puts \in PriorPuts : table = TableOf(puts) /\ lastPut = puts
    /\ pc = [p \in Procs |-> "idle"]
    /\ event = [p \in Procs |-> Null]
    /\ handler = [p \in Procs |-> "none"]
    /\ response = [p \in Procs |-> Null]
    /\ result = [p \in Procs |-> Null]
    /\ calls = [p \in Procs |-> <<>>]

lambda_handler_shapes == \E e \in ShapeEvents : Dispatch(1, e)

NextShapes ==
    \/ lambda_handler_shapes
    \/ head_object_ok(1)
    \/ head_object_fails(1)
    \/ put_item_ok(1)
    \/ put_item_fails(1)
    \/ get_item_ok(1)
    \/ get_item_fails(1)

SpecShapes == InitShapes /\ [][NextShapes]_vars

----------------------------------------------------------------------------
(* Vocabulary of the properties *)

IngestionHandler == "handle_s3_event"
QueryHandler == "handle_api_gateway_event"

\* The ISO-8601 rendering of the two timestamps S3 reports here.
Iso8601(t) ==
    CASE t = T1 -> "2024-01-01T00:00:00+00:00"
      [] t = T2 -> "2023-12-31T23:59:59+00:00"

\* The answer to a lookup of K whose record was built from the report m.
FoundResponse(K, m) ==
    [statusCode |-> 200,
     headers |-> ("Content-Type" :> "application/json"),
     body |-> [json |-> [imageName |-> K,
                         size |-> [type |-> "int", val |-> m.ContentLength.val],
                         contentType |-> m.ContentType,
                         lastModified |-> Iso8601(m.LastModified)]]]

\* The record the table holds for K after a put built from the report m.
StoredRecord(K, m) ==
    [imageName |-> K,
     size |-> [type |-> "N", val |-> m.ContentLength.val],
     contentType |-> m.ContentType,
     lastModified |-> Iso8601(m.LastModified)]

Keys(tbl) == {i.imageName : i \in tbl}
RecordsOf(tbl, K) == {i \in tbl : i.imageName = K}

\* Slot p completes a table read that succeeded, in this step.
ReadCompletes(p) ==
    /\ pc[p] = "get_item"
    /\ pc'[p] = "done"
    /\ calls'[p][Len(calls'[p])].ok

Returned(p) == pc[p] = "done" /\ "statusCode" \in DOMAIN result[p]

----------------------------------------------------------------------------
(* C1 *)

\* C1: a lookup of a key K that was ingested, the store having reported
\* (L, C, T) to the most recent ingestion that put K, answers 200 with the
\* header Content-Type: application/json and the body {imageName: K,
\* size: L as an int, contentType: C, lastModified: ISO-8601 of T}.
C1_RoundTrip ==
    [][\A p \in Procs :
          (ReadCompletes(p) /\ event[p].pathParameters.imageName \in DOMAIN lastPut)
          => LET K == event[p].pathParameters.imageName
             IN  result'[p] = FoundResponse(K, lastPut[K])]_vars

\* An ingestion of the encoded key x%20y returned 200 on the report
\* (1024, image/png, T1), and a lookup of "x y" has answered with it.
C1_Witness ==
    \E p, q \in Procs :
        /\ handler[p] = IngestionHandler
        /\ result[p] = [statusCode |-> 200]
        /\ event[p].Records.list[1].s3.object.key = <<"x", "%", "2", "0", "y">>
        /\ response[p].ContentLength.val = 1024
        /\ handler[q] = QueryHandler
        /\ Returned(q)
        /\ result[q].statusCode = 200
        /\ result[q].body.json.imageName = <<"x", " ", "y">>
        /\ result[q].body.json.size = [type |-> "int", val |-> 1024]
        /\ result[q].body.json.contentType = "image/png"
        /\ result[q].body.json.lastModified = "2024-01-01T00:00:00+00:00"

----------------------------------------------------------------------------
(* C2 *)

\* C2: the table holds exactly one record for each key ever put and none for
\* any other; the record of K is the one built from the report of the most
\* recent put for K, and a lookup of K made now answers with that record's
\* values only.
C2_LastWriteWins ==
    /\ Keys(table) = DOMAIN lastPut
    /\ \A K \in DOMAIN lastPut :
          /\ RecordsOf(table, K) = {StoredRecord(K, lastPut[K])}
          /\ QueryResponse(GetItem(table, [imageName |-> K]))
                 = FoundResponse(K, lastPut[K])

\* Two ingestions of the same key with different reports have both returned
\* 200, and the table holds one record for the key.
C2_Witness ==
    \E p, q \in Procs :
        /\ handler[p] = IngestionHandler /\ handler[q] = IngestionHandler
        /\ result[p] = [statusCode |-> 200] /\ result[q] = [statusCode |-> 200]
        /\ calls[p][1].Key = calls[q][1].Key
        /\ response[p] # response[q]
        /\ Cardinality(RecordsOf(table, calls[p][1].Key)) = 1

----------------------------------------------------------------------------
(* C3 *)

\* C3: a lookup of a key that no ingestion has put, the read succeeding,
\* answers 404 with the body {"error": "Image not found"}.
C3_NotFound ==
    [][\A p \in Procs :
          (ReadCompletes(p) /\ event[p].pathParameters.imageName \notin DOMAIN lastPut)
          => result'[p] = [statusCode |-> 404,
                           body |-> [json |-> [error |-> "Image not found"]]]]_vars

\* A lookup of the raw key x+y was answered 404 while the table held the
\* record of the decoded key.
C3_Witness ==
    \E p \in Procs :
        /\ handler[p] = QueryHandler
        /\ Returned(p)
        /\ result[p].statusCode = 404
        /\ calls[p] # <<>> /\ calls[p][1].ok
        /\ event[p].pathParameters.imageName = <<"x", "+", "y">>
        /\ <<"x", " ", "y">> \in Keys(table)
        /\ <<"x", "+", "y">> \notin DOMAIN lastPut

----------------------------------------------------------------------------
(* C10 *)

\* C10: every step that changes the table is the put of an ingestion whose
\* metadata fetch succeeded; it adds or replaces the record of the fetched
\* key, leaves every other record as it was, and removes no key.
C10_OnlyPutWrites ==
    [][table' # table =>
          \E p \in Procs :
              /\ handler[p] = IngestionHandler
              /\ pc[p] = "put_item" /\ pc'[p] = "done"
              /\ Len(calls[p]) = 1
              /\ calls[p][1].op = "head_object" /\ calls[p][1].ok
              /\ LET K == calls[p][1].Key
                 IN  /\ table' \ RecordsOf(table', K) = table \ RecordsOf(table, K)
                     /\ K \in Keys(table')
              /\ Keys(table) \subseteq Keys(table')]_vars

\* The table holds two keys while a lookup has been answered, an unknown
\* envelope refused and an ingestion has failed at the fetch.
C10_Witness ==
    /\ Cardinality(Keys(table)) = 2
    /\ \E p, q \in Procs :
          /\ handler[p] = QueryHandler /\ pc[p] = "done"
          /\ handler[q] = IngestionHandler /\ pc[q] = "done"
          /\ result[q] = [raised |-> "ClientError"]
          /\ Len(calls[q]) = 1

----------------------------------------------------------------------------
(* Vocabulary of the properties of one invocation *)

HasRecordsField(e) == "Records" \in DOMAIN e
HasRecordsList(e) == HasRecordsField(e) /\ IsList(e.Records)
HasNotifications(e) == HasRecordsList(e) /\ e.Records.list # <<>>
HasHttpMethod(e) == "httpMethod" \in DOMAIN e

\* The first entry of the batch is a notification, with its bucket and key.
FirstIsNotification(e) ==
    HasNotifications(e) /\ "s3" \in DOMAIN e.Records.list[1]

\* The step in which the router classifies slot p's envelope.
Dispatches(p) == pc[p] = "idle" /\ pc'[p] # "idle"

\* In that step slot p is answered 400 and nothing is called or written.
Refused(p) ==
    /\ pc'[p] = "done"
    /\ result'[p] = [statusCode |-> 400, body |-> [json |-> "Unknown event source"]]
    /\ calls'[p] = <<>>
    /\ table' = table

\* Decoding of an object key, character by character from the left: '+' is
\* a space, '%' and two hex digits are the character of that code, anything
\* else is itself.
RECURSIVE PercentDecode(_)
PercentDecode(s) ==
    IF s = <<>> THEN <<>>
    ELSE IF s[1] = "+" THEN <<" ">> \o PercentDecode(Tail(s))
    ELSE IF /\ s[1] = "%"
            /\ Len(s) >= 3
            /\ s[2] \in HexDigits
            /\ s[3] \in HexDigits
         THEN <<ByteToChar(16 * HexVal(s[2]) + HexVal(s[3]))>>
              \o PercentDecode(SubSeq(s, 4, Len(s)))
    ELSE <<s[1]>> \o PercentDecode(Tail(s))

CallsOf(p, op) == {i \in 1..Len(calls[p]) : calls[p][i].op = op}

----------------------------------------------------------------------------
(* C4 *)

----------------------------------------------------------------------------
(* C5 *)

\* C5: an invocation dispatched to the ingestion handler ends either
\* returning {statusCode: 200}, when the fetch and the put both succeeded and
\* the item is in the table, or raising, when reading the record, the fetch
\* or the put failed; it returns nothing else.
C5_FailLoud ==
    \A p \in Procs :
        (handler[p] = IngestionHandler /\ pc[p] = "done")
        => IF /\ Len(calls[p]) = 2
              /\ calls[p][1].op = "head_object" /\ calls[p][1].ok
              /\ calls[p][2].op = "put_item" /\ calls[p][2].ok
           THEN /\ result[p] = [statusCode |-> 200]
                /\ \E i \in table : i.imageName = calls[p][2].Item.imageName
           ELSE /\ IsRaised(result[p])
                /\ "statusCode" \notin DOMAIN result[p]

\* An ingestion whose put failed has raised.
C5_Witness ==
    \E p \in Procs :
        /\ handler[p] = IngestionHandler /\ pc[p] = "done"
        /\ Len(calls[p]) = 2 /\ ~calls[p][2].ok
        /\ IsRaised(result[p])

----------------------------------------------------------------------------
(* C6 *)

\* The request names no image: no pathParameters, null, or no imageName.
NamesNoImage(e) ==
    \/ "pathParameters" \notin DOMAIN e
    \/ e.pathParameters = Null
    \/ "imageName" \notin DOMAIN e.pathParameters

\* C6: an invocation dispatched to the query handler is either at its read,
\* which can always complete, or has returned a response with status 200, 404
\* or 500 and raised nothing; a request that names no image, and one whose
\* read failed, are answered 500 with the body {"error": "Internal server
\* error"}.
C6_AlwaysAnswers ==
    \A p \in Procs :
        handler[p] = QueryHandler
        => /\ pc[p] \in {"get_item", "done"}
           /\ pc[p] = "get_item" => ENABLED (get_item_ok(p) \/ get_item_fails(p))
           /\ pc[p] = "done" =>
                 /\ ~IsRaised(result[p])
                 /\ "statusCode" \in DOMAIN result[p]
                 /\ result[p].statusCode \in {200, 404, 500}
                 /\ (NamesNoImage(event[p]) \/ (calls[p] # <<>> /\ ~calls[p][1].ok))
                    => result[p] = [statusCode |-> 500,
                                    body |-> [json |-> [error |-> "Internal server error"]]]

\* A request whose pathParameters hold no imageName was answered 500.
C6_Witness ==
    \E p \in Procs :
        /\ handler[p] = QueryHandler /\ pc[p] = "done"
        /\ "pathParameters" \in DOMAIN event[p]
        /\ event[p].pathParameters # Null
        /\ "imageName" \notin DOMAIN event[p].pathParameters
        /\ result[p].statusCode = 500
        /\ calls[p] = <<>>

----------------------------------------------------------------------------
(* C7 *)

\* C7: the ingestion of a notification for bucket B and raw key K fetches
\* (B, decode(K)) and puts the item under imageName = decode(K); when
\* decoding changes the key, the raw key is not a key of the table.
C7_DecodeBeforeUse ==
    \A p \in Procs :
        (handler[p] = IngestionHandler /\ FirstIsNotification(event[p]))
        => LET rec == event[p].Records.list[1].s3
               raw == rec.object.key
               K == PercentDecode(raw)
           IN  /\ \A i \in CallsOf(p, "head_object") :
                     calls[p][i].Bucket = rec.bucket.name /\ calls[p][i].Key = K
               /\ \A i \in CallsOf(p, "put_item") :
                     /\ calls[p][i].Item.imageName = K
                     /\ calls[p][i].ok => K \in Keys(table)
               /\ raw # K => raw \notin Keys(table)

\* The raw key %2B was ingested: the fetch and the record are for "+".
C7_Witness ==
    \E p \in Procs :
        /\ handler[p] = IngestionHandler
        /\ result[p] = [statusCode |-> 200]
        /\ event[p].Records.list[1].s3.object.key = <<"%", "2", "B">>
        /\ calls[p][1].Key = <<"+">>
        /\ <<"+">> \in Keys(table)

----------------------------------------------------------------------------
(* C8 *)

\* What the router does in the step it classifies: one handler is chosen,
\* nothing is called or written, and the envelope that fits no handler is
\* answered 400.
RoutedTo(p, h) ==
    /\ handler'[p] = h
    /\ calls'[p] = <<>>
    /\ table' = table
    /\ h = "lambda_handler" => Refused(p)

\* The calls of slot p are those of the handler it was dispatched to.
OneHandlerRuns(p) ==
    /\ handler[p] = IngestionHandler => CallsOf(p, "get_item") = {}
    /\ handler[p] = QueryHandler =>
           CallsOf(p, "head_object") \cup CallsOf(p, "put_item") = {}
    /\ handler[p] = "lambda_handler" => calls[p] = <<>>

----------------------------------------------------------------------------
(* C9 *)

\* The fetches and puts of slot p, whose batch starts with a notification:
\* at most one of each, one fetch once the invocation has ended, all for the
\* first entry's bucket and decoded key.
FirstEntryOnly(p) ==
    LET rec == event[p].Records.list[1].s3
        K == PercentDecode(rec.object.key)
    IN  /\ Cardinality(CallsOf(p, "head_object")) <= 1
        /\ Cardinality(CallsOf(p, "put_item")) <= 1
        /\ pc[p] = "done" => Cardinality(CallsOf(p, "head_object")) = 1
        /\ \A i \in CallsOf(p, "head_object") :
              calls[p][i].Bucket = rec.bucket.name /\ calls[p][i].Key = K
        /\ \A i \in CallsOf(p, "put_item") : calls[p][i].Item.imageName = K

\* C9: an ingestion of a batch of n >= 1 notifications makes exactly one
\* fetch and at most one put, both for the first entry; no step of it changes
\* the record of any key but the first entry's decoded key.
C9_FirstRecordOnly ==
    /\ [](\A p \in Procs :
             (handler[p] = IngestionHandler /\ FirstIsNotification(event[p]))
             => FirstEntryOnly(p))
    /\ [][\A p \in Procs :
             (handler[p] = IngestionHandler /\ FirstIsNotification(event[p]))
             => \A K2 \in Keys(table) \cup Keys(table') :
                    K2 # PercentDecode(event[p].Records.list[1].s3.object.key)
                    => RecordsOf(table', K2) = RecordsOf(table, K2)]_vars

\* A batch of x+y and z was ingested: "x y" is in the table, z is not.
C9_Witness ==
    \E p \in Procs :
        /\ handler[p] = IngestionHandler
        /\ result[p] = [statusCode |-> 200]
        /\ Len(event[p].Records.list) = 2
        /\ event[p].Records.list[1] = S3Record("imgs", <<"x", "+", "y">>)
        /\ event[p].Records.list[2] = S3Record("imgs", <<"z">>)
        /\ <<"x", " ", "y">> \in Keys(table)
        /\ <<"z">> \notin Keys(table)

====
